---- MODULE Spec2Model ----
(***************************************************************************)
(* State-machine model of the VisualTwin component                         *)
(* (frontend/src/components/VisualTwin/VisualTwin.tsx): the camera state,  *)
(* the pointer handlers, the hit regions recorded while drawing and the    *)
(* requestAnimationFrame loop.                                             *)
(*                                                                         *)
(* React is modelled by two records.  `state` holds the hook state (the    *)
(* value every queued setState has been applied to, in order); `rendered`  *)
(* holds the values captured by the closures of the last committed render  *)
(* (what the event handlers and renderScene read).  Handlers of discrete   *)
(* events (mousedown, mouseup, click, button clicks) are followed by a     *)
(* synchronous commit; handlers of continuous events (mousemove,           *)
(* mouseleave, wheel) and the animation callback leave their updates       *)
(* queued until a later commit (action Render), so several of them may run *)
(* with the same closures.  A commit is one step: the closures are         *)
(* rebuilt and, when renderScene changed, the animation effect's cleanup   *)
(* and the effect run.  The browser delivers click right after mouseup.    *)
(*                                                                         *)
(* Numbers: zoomLevel is an exact fraction [n, d] in lowest terms; farm    *)
(* and screen coordinates are integers and cos(pi/6) is the fraction       *)
(* CosNum/CosDen, the footprints enumerated below being the ones it maps   *)
(* to whole pixels.                                                        *)
(***************************************************************************)
EXTENDS Integers, Sequences, FiniteSets, TLC

null == "null"

(***************************************************************************)
(* Bounds of the model.                                                    *)
(***************************************************************************)
MaxFrame == 2          \* the effect-local frame counter stops here
ZoomDenBound == 10000000   \* largest denominator of a zoomLevel fraction
SceneZoomDenBound == 6 \* the same, in the specification with the scene
PanBound == 70         \* largest |panOffset - (100, 50)| per axis
MaxRafId == 2          \* outstanding requests the model tracks
MaxWheel == 9   \* longest counted run of wheel events in one direction
MaxChat == 2           \* messages the chat view submits or receives
MaxSensors == 51       \* sensors that report to the farm-data socket

(***************************************************************************)
(* Program constants.                                                      *)
(***************************************************************************)
CanvasWidth == 1000
CanvasHeight == 700
CosNum == 13           \* Math.cos(Math.PI / 6) ~ 13/15
CosDen == 15
SinNum == 1            \* Math.sin(Math.PI / 6) = 1/2
SinDen == 2
zoneHeight == 30

(***************************************************************************)
(* Exact fractions.                                                        *)
(***************************************************************************)
RECURSIVE Gcd(_, _)
Gcd(a, b) == IF b = 0 THEN a ELSE Gcd(b, a % b)

Frac(n, d) == LET g == Gcd(n, d) IN [n |-> n \div g, d |-> d \div g]
FMul(z, n, d) == Frac(z.n * n, z.d * d)
FLess(a, b) == a.n * b.d < b.n * a.d
FMax(a, b) == IF FLess(a, b) THEN b ELSE a
FMin(a, b) == IF FLess(b, a) THEN b ELSE a
Half == [n |-> 1, d |-> 2]
One == [n |-> 1, d |-> 1]
Two == [n |-> 2, d |-> 1]

(***************************************************************************)
(* toIsometric and the top face of a zone prism.                           *)
(***************************************************************************)
Pt(x, y) == [x |-> x, y |-> y]

toIsometric(x, y, z) ==
    Pt(((x - y) * CosNum) \div CosDen, ((x + y) * SinNum) \div SinDen - z)

\* the corners draw3DZone stores for a zone: its top face, made absolute
absoluteCorners(zone, centerX, centerY) ==
    LET x == ((zone.position.x - 400) * 4) \div 5
        y == ((zone.position.y - 300) * 4) \div 5
        w == (zone.position.width * 4) \div 5
        h == (zone.position.height * 4) \div 5
        topCorners == << toIsometric(x, y, zoneHeight),
                         toIsometric(x + w, y, zoneHeight),
                         toIsometric(x + w, y + h, zoneHeight),
                         toIsometric(x, y + h, zoneHeight) >>
    IN  [i \in 1 .. 4 |-> Pt(topCorners[i].x + centerX, topCorners[i].y + centerY)]

(***************************************************************************)
(* isPointInPolygon, for the point (point.x / point.d, point.y / point.d)  *)
(* with point.d > 0.  The division by (yj - yi) of the source is cleared   *)
(* by cross-multiplication (yj # yi whenever the first conjunct holds).    *)
(***************************************************************************)
intersect(point, pi, pj) ==
    LET yi == pi.y * point.d
        yj == pj.y * point.d
        xi == pi.x * point.d
        xj == pj.x * point.d
    IN  /\ (yi > point.y) # (yj > point.y)
        /\ IF yj - yi > 0
           THEN (point.x - xi) * (pj.y - pi.y) < (pj.x - pi.x) * (point.y - yi)
           ELSE (point.x - xi) * (pj.y - pi.y) > (pj.x - pi.x) * (point.y - yi)

RECURSIVE PolyLoop(_, _, _, _)
PolyLoop(point, polygon, i, inside) ==
    IF i > Len(polygon) THEN inside
    ELSE LET j == IF i = 1 THEN Len(polygon) ELSE i - 1
         IN  PolyLoop(point, polygon, i + 1,
                      IF intersect(point, polygon[i], polygon[j])
                      THEN ~inside ELSE inside)

\* the test with the parity started at true
isPointInPolygonInverted(point, polygon) == PolyLoop(point, polygon, 1, TRUE)

isPointInPolygon(point, polygon) == PolyLoop(point, polygon, 1, FALSE)

(***************************************************************************)
(* Inputs: farm snapshots and pointer positions.                           *)
(***************************************************************************)
ZoneA == [id |-> "A", position |-> [x |-> 400, y |-> 300, width |-> 150, height |-> 150]]
ZoneB == [id |-> "B", position |-> [x |-> 475, y |-> 375, width |-> 150, height |-> 150]]

\* farmData.zones of the snapshots the application may supply, after the
\* initial farmData = {} (no zones member: nothing is drawn)
Snapshots == { << ZoneB >>, << ZoneA, ZoneB >> }

\* zones of many shapes and places, all with positive width and height
GeometryZones ==
    { [id |-> "A", position |-> [x |-> x, y |-> y, width |-> w, height |-> h]] :
          x \in {100, 400}, y \in {200, 300}, w \in {10, 150, 300}, h \in {20, 150} }

GeometrySnapshots ==
    { << z >> : z \in GeometryZones } \cup { << z, ZoneB >> : z \in GeometryZones }

\* pointer positions over the middle of zone A's and of zone B's top face
\* under the initial camera, and one far from every zone
GeometryPoints == { Pt(600, 570), Pt(600, 630), Pt(50, 60) }

\* zones A and B with the readings the colours are computed from
ColourReadings ==
    { [soil_moisture |-> 60, health |-> 100], [soil_moisture |-> 33, health |-> 50] }

ColourZone(zone, reading) ==
    [ id |-> zone.id, position |-> zone.position,
      soil_moisture |-> reading.soil_moisture, health |-> reading.health ]

ColourSnapshots ==
    { << ColourZone(ZoneA, a), ColourZone(ZoneB, b) >> : a, b \in ColourReadings }

\* a zone whose width is negative, and one with no position record
ZoneNeg == [id |-> "N", position |-> [x |-> 475, y |-> 375, width |-> -150, height |-> 150]]
ZoneNoPos == [id |-> "M"]

\* snapshots a backend may also supply: farmData is an untyped API response
FaultySnapshots ==
    { << ZoneB >>, << ZoneNeg, ZoneB >>, << ZoneA, ZoneNoPos, ZoneB >> }

\* sensorPositions of draw3DSensor
sensorPositions ==
    [ SM001 |-> Pt(125, 110), SM002 |-> Pt(310, 110), SM003 |-> Pt(110, 275),
      TH001 |-> Pt(360, 210), HU001 |-> Pt(380, 230) ]

\* the sensorData prop: the sensor_id of each reading, one reading per id
SensorFeeds == { << >>, << "TH001" >>, << "SM001", "WS009", "HU001" >> }

\* confidence_score values a reading may carry
ConfidenceScores == { Frac(0, 1), Half, Frac(4, 5), One }

\* readings of two sensors, without and with a confidence_score
DashboardReadings ==
    { [sensor_id |-> s, value |-> 25] : s \in 1 .. 2 }
        \cup { [sensor_id |-> s, value |-> 25, confidence_score |-> c] :
                  s \in 1 .. 2, c \in ConfidenceScores }

\* what the farm-data socket may deliver: text that is no JSON (or JSON
\* null, whose member access throws inside the try), a message of another
\* type, a sensor_update without data, a sensor_update with a reading
Unparsable == [parses |-> FALSE]
OtherMessages ==
    { Unparsable,
      [parses |-> TRUE, type |-> "status", data |-> << >>],
      [parses |-> TRUE, type |-> "sensor_update", data |-> << >>] }
SensorUpdate(reading) == [parses |-> TRUE, type |-> "sensor_update", data |-> << reading >>]

\* the readings of the feed: value 0 for the first reading of a sensor,
\* value 1 for a reading that follows an earlier one of the same sensor
FeedReadings == { [sensor_id |-> s, value |-> v] : s \in 1 .. MaxSensors, v \in 0 .. 1 }

\* what the user may have in the chat input, and String.prototype.trim of it
Texts == { "", "  ", "water?", " soil " }
trim(text) ==
    CASE text = "  " -> ""
      [] text = " soil " -> "soil"
      [] OTHER -> text

\* the responses of the chat backend, with and without a message member
Responses == { [message |-> "ok"], [status |-> "busy"] }

DashboardMessages == OtherMessages \cup { SensorUpdate(r) : r \in DashboardReadings }

\* clientX / clientY of the pointer events
Points == { Pt(600, 530), Pt(650, 600) }

DeltaYs == { -100, 0, 100 }

VARIABLES
    lifecycle,          \* "init", "mounted", "unmounted" (torn down by the
                        \* host) or "failed" (removed by React after an
                        \* error thrown in the animation effect)
    surface,            \* the canvas: "ok", "zeroArea" (its layout box is
                        \* collapsed) or "noContext" (getContext is null)
    sensorData,         \* sensor_id of the readings in the sensorData prop
    markers,            \* sensor_id of the markers the last pass drew
    farmData,           \* farmData.zones of the current props
    zoneHitAreas,       \* zoneHitAreasRef.current, in Map iteration order
    animationFrameRef,  \* animationFrameRef.current, 0 for undefined
    rafPending,         \* requests scheduled and neither fired nor cancelled
    state,              \* hook state of the useState cells
    rendered,           \* the values the closures of the last render hold
    frame,              \* `let frame` of the current animation effect
    depsTouched,        \* a queued update replaced an object renderScene depends on
    calls,              \* ids passed to onZoneClick by the last operation
    lastOp,             \* the last operation
    painted,            \* the last operation ran a renderScene pass
    pointer,            \* the gesture: "up", "down", "dragged" (moved while
                        \* down), "released" / "releasedDrag" (click due)
    eventPoint,         \* clientX / clientY of the last pointer event
                        \* (down or move; up and click happen there)
    panBase,            \* << panOffset minus the pointer-down point >> of the
                        \* drag gesture in progress, << >> outside one
    wheelRun,           \* the wheel events since zoomLevel was last 1, counted
                        \* while they all turn the same way
    farmWs,             \* readyState of the farm-data socket of the hook:
                        \* "connecting", "open" or "closed"
    connected,          \* connected of useWebSocket
    hookSensorData,     \* sensorData of useWebSocket: the readings kept
    farmWsEvent,        \* the message the farm-data socket delivered last
    chartData,          \* chartData of the Dashboard
    chatWs,             \* readyState of the chat socket of the hook
    chatMessages,       \* chatMessages of useWebSocket
    sent,               \* what chatWs.send has handed to the chat socket
    submitted,          \* what the chat view has passed to sendChatMessage
    inputMessage,       \* inputMessage of the ChatAssistant
    isTyping            \* isTyping of the ChatAssistant

vars == << lifecycle, surface, sensorData, markers, farmData, zoneHitAreas, animationFrameRef, rafPending,
           state, rendered, frame, depsTouched, calls, lastOp, painted,
           pointer, eventPoint, panBase, wheelRun,
           farmWs, connected, hookSensorData, farmWsEvent, chartData,
           chatWs, chatMessages, sent, submitted, inputMessage, isTyping >>

\* the chat socket of the hook and the ChatAssistant
chatVars == << chatWs, chatMessages, sent, submitted, inputMessage, isTyping >>

\* the state of the useWebSocket hook and of the views fed by it alone
hookVars == << farmWs, connected, hookSensorData, farmWsEvent, chartData, chatVars >>

\* the state of the VisualTwin view and of its canvas
viewVars ==
    << lifecycle, surface, sensorData, markers, farmData, zoneHitAreas, animationFrameRef,
       rafPending, state, rendered, frame, depsTouched, calls, lastOp, painted,
       pointer, eventPoint, panBase, wheelRun >>

\* the run of wheel events the observer counts: pure while it started at
\* zoomLevel = 1 and every event since turned the wheel the same way
newRun == [pure |-> TRUE, ups |-> 0, downs |-> 0]
noRun == [pure |-> FALSE, ups |-> 0, downs |-> 0]

initialState ==
    [ selectedZone |-> null, hoveredZone |-> null,
      zoomLevel |-> One, panOffset |-> Pt(100, 50),
      isDragging |-> FALSE, dragStart |-> Pt(0, 0),
      showSensors |-> TRUE, showLabels |-> TRUE,
      currentTime |-> 0 ]

\* everything but the canvas the browser provides
InitView ==
    /\ lifecycle = "init"
    /\ sensorData = << >>
    /\ markers = << >>
    /\ farmData = << >>
    /\ zoneHitAreas = << >>
    /\ animationFrameRef = 0
    /\ rafPending = {}
    /\ state = initialState
    /\ rendered = initialState
    /\ frame = 0
    /\ depsTouched = FALSE
    /\ calls = << >>
    /\ lastOp = "Init"
    /\ painted = FALSE
    /\ pointer = "up"
    /\ eventPoint = Pt(600, 530)
    /\ panBase = << >>
    /\ wheelRun = newRun
    /\ farmWs = "connecting"
    /\ connected = FALSE
    /\ hookSensorData = << >>
    /\ farmWsEvent = << >>
    /\ chartData = << >>
    /\ chatWs = "connecting"
    /\ chatMessages = << >>
    /\ sent = << >>
    /\ submitted = << >>
    /\ inputMessage = ""
    /\ isTyping = FALSE

Init == InitView /\ surface = "ok"

(***************************************************************************)
(* zoneHitAreasRef.current.set(zone.id, ...): a Map keeps the position of  *)
(* a key it already holds and appends a new key.                           *)
(***************************************************************************)
MapSet(m, id, corners) ==
    IF \E i \in 1 .. Len(m) : m[i].id = id
    THEN [i \in 1 .. Len(m) |->
            IF m[i].id = id THEN [id |-> id, corners |-> corners] ELSE m[i]]
    ELSE Append(m, [id |-> id, corners |-> corners])

\* the hit-area part of draw3DZone
draw3DZone(m, zone, centerX, centerY) ==
    MapSet(m, zone.id, absoluteCorners(zone, centerX, centerY))

\* const { x, y, width, height } = zone.position throws a TypeError when
\* the zone has no position
hasPosition(zone) == "position" \in DOMAIN zone

\* the hit areas after renderScene has drawn the zones of a snapshot, in
\* order, up to the zone at which draw3DZone throws
RECURSIVE DrawZones(_, _, _)
DrawZones(m, zones, i) ==
    IF i > Len(zones) \/ ~hasPosition(zones[i]) THEN m
    ELSE DrawZones(draw3DZone(m, zones[i], CanvasWidth \div 2, (CanvasHeight * 7) \div 10),
                   zones, i + 1)

renderScene(m, zones) == DrawZones(m, zones, 1)

\* the pass does not come to its end
renderThrows(zones) == \E i \in 1 .. Len(zones) : ~hasPosition(zones[i])

(***************************************************************************)
(* The colours draw3DZone paints a zone with: Math.floor of a linear       *)
(* function of soil_moisture / 60 and of health / 100 for each channel of  *)
(* the top and the side colour, and an outline that follows the selection  *)
(* and the hover of the closure r.                                         *)
(***************************************************************************)
topColor(zone) ==
    << 60 + (100 * zone.soil_moisture) \div 60,
       150 + (50 * zone.health) \div 100,
       50 + (30 * zone.soil_moisture) \div 60 >>

sideColor(zone) ==
    << 40 + (80 * zone.soil_moisture) \div 60,
       120 + (40 * zone.health) \div 100,
       30 + (20 * zone.soil_moisture) \div 60 >>

outline(zone, r) ==
    IF r.selectedZone = zone.id THEN "#FFD700"
    ELSE IF r.hoveredZone = zone.id THEN "#FFA500"
    ELSE "#333"

\* faces that take the outline's brightness when the zone is highlighted
zoneFacesHighlighted(zone, r) ==
    [ id |-> zone.id, soil_moisture |-> zone.soil_moisture, health |-> zone.health,
      top |-> IF outline(zone, r) = "#333" THEN topColor(zone) ELSE << 255, 215, 0 >>,
      side |-> sideColor(zone), outline |-> outline(zone, r) ]

zoneFaces(zone, r) ==
    [ id |-> zone.id, soil_moisture |-> zone.soil_moisture, health |-> zone.health,
      top |-> topColor(zone), side |-> sideColor(zone), outline |-> outline(zone, r) ]

\* the faces of the frame the last step painted: renderScene of the render
\* in force draws every zone of the snapshot it was given
paintedFaces ==
    IF painted THEN { zoneFaces(farmData[i], rendered) : i \in 1 .. Len(farmData) } ELSE {}

\* draw3DSensor: if (!pos) return, else the marker is drawn
draw3DSensor(drawn, sensor_id) ==
    IF sensor_id \in DOMAIN sensorPositions THEN Append(drawn, sensor_id) ELSE drawn

RECURSIVE DrawSensors(_, _, _)
DrawSensors(drawn, sensors, i) ==
    IF i > Len(sensors) THEN drawn
    ELSE DrawSensors(draw3DSensor(drawn, sensors[i]), sensors, i + 1)

\* a pass that draws the markers whatever the toggle says
sensorMarkersAlways(showSensors, sensors) == DrawSensors(<< >>, sensors, 1)

\* if (showSensors && sensorData.length > 0) sensorData.forEach(draw3DSensor)
sensorMarkers(showSensors, sensors) ==
    IF showSensors /\ Len(sensors) > 0 THEN DrawSensors(<< >>, sensors, 1) ELSE << >>

(***************************************************************************)
(* The pointer's scene point (mouse - panOffset) / zoomLevel, read from    *)
(* the closure r, as the fraction (x / d, y / d).  The canvas fills its    *)
(* bounding rectangle at the origin, so mouseX = clientX.                  *)
(***************************************************************************)
\* the conversion with the pan offset left out
adjustedNoPan(p, r) ==
    [ x |-> p.x * r.zoomLevel.d, y |-> p.y * r.zoomLevel.d, d |-> r.zoomLevel.n ]

\* ctx.translate(panOffset.x, panOffset.y); ctx.scale(zoomLevel, zoomLevel):
\* where the frame of render r puts the scene point q, as a fraction
sceneToScreen(q, r) ==
    [ x |-> q.x * r.zoomLevel.n + r.panOffset.x * r.zoomLevel.d,
      y |-> q.y * r.zoomLevel.n + r.panOffset.y * r.zoomLevel.d,
      d |-> r.zoomLevel.d ]

\* a conversion that divides before it subtracts: s / zoomLevel - panOffset
screenToSceneDivFirst(s, r) ==
    [ x |-> s.x * r.zoomLevel.d - r.panOffset.x * s.d * r.zoomLevel.n,
      y |-> s.y * r.zoomLevel.d - r.panOffset.y * s.d * r.zoomLevel.n,
      d |-> s.d * r.zoomLevel.n ]

\* (s - panOffset) / zoomLevel for the canvas point (s.x / s.d, s.y / s.d)
screenToScene(s, r) ==
    [ x |-> (s.x - r.panOffset.x * s.d) * r.zoomLevel.d,
      y |-> (s.y - r.panOffset.y * s.d) * r.zoomLevel.d,
      d |-> s.d * r.zoomLevel.n ]

\* adjustedX, adjustedY of the handlers, for the pointer at the pixel p
adjusted(p, r) == screenToScene([x |-> p.x, y |-> p.y, d |-> 1], r)

\* the entries of the Map, in iteration order, whose polygon holds the point
Matches(m, point) == SelectSeq(m, LAMBDA e : isPointInPolygon(point, e.corners))

Ids(m) == [i \in 1 .. Len(m) |-> m[i].id]

(***************************************************************************)
(* The updater functions passed to setZoomLevel.                           *)
(***************************************************************************)
\* handleWheel with the lower clamp left out
wheelZoomNoFloor(prev, deltaY) ==
    FMin(Two, IF deltaY > 0 THEN FMul(prev, 9, 10) ELSE FMul(prev, 11, 10))

\* handleWheel with the two factors exchanged
wheelZoomSwapped(prev, deltaY) ==
    FMax(Half, FMin(Two, IF deltaY > 0 THEN FMul(prev, 11, 10) ELSE FMul(prev, 9, 10)))

\* handleWheel: Math.max(0.5, Math.min(2, prev * (deltaY > 0 ? 0.9 : 1.1)))
wheelZoom(prev, deltaY) ==
    FMax(Half, FMin(Two, IF deltaY > 0 THEN FMul(prev, 9, 10) ELSE FMul(prev, 11, 10)))

\* ZoomIn button: Math.min(prev * 1.2, 2)
zoomInLevel(prev) == FMin(FMul(prev, 6, 5), Two)

\* a ZoomOut that multiplies by 0.8
zoomOutLevelTimes(prev) == FMax(FMul(prev, 4, 5), Half)

\* ZoomOut button: Math.max(prev / 1.2, 0.5)
zoomOutLevel(prev) == FMax(FMul(prev, 5, 6), Half)

\* the observer's run after a wheel event that made zoomLevel z: a positive
\* deltaY is a wheel-down, a negative one a wheel-up, zero is neither
runAfterWheel(run, z, deltaY) ==
    IF z = One THEN newRun
    ELSE IF ~run.pure \/ deltaY = 0 THEN noRun
    ELSE IF deltaY > 0
         THEN IF run.ups > 0 THEN noRun ELSE [run EXCEPT !.downs = @ + 1]
         ELSE IF run.downs > 0 THEN noRun ELSE [run EXCEPT !.ups = @ + 1]

\* the observer's run after a button made zoomLevel z
runAfterButton(z) == IF z = One THEN newRun ELSE noRun

\* handleMouseMove while dragging: prev + (client - dragStart), dragStart
\* being the anchor the handler's closure holds
dragPan(prev, p, dragStart) == Pt(prev.x + (p.x - dragStart.x), prev.y + (p.y - dragStart.y))

Abs(n) == IF n < 0 THEN -n ELSE n
PanInBounds(pan) == Abs(pan.x - 100) <= PanBound /\ Abs(pan.y - 50) <= PanBound

(***************************************************************************)
(* requestAnimationFrame / cancelAnimationFrame and the animation effect.  *)
(* Every request is followed at once by the store of its id in             *)
(* animationFrameRef, so the ref, once set, names the newest request.      *)
(***************************************************************************)
\* a cancelAnimationFrame that cancels nothing
cancelNothing(pending, id) == pending

cancelAnimationFrame(pending, id) == pending \ {id}

\* a cleanup that forgets to cancel
cleanupNoCancel(pending, ref) == pending

\* the effect's cleanup: if (animationFrameRef.current) cancelAnimationFrame(...)
cleanup(pending, ref) ==
    IF ref # 0 THEN cancelAnimationFrame(pending, ref) ELSE pending

\* requestAnimationFrame: request ids are opaque handles, never reused.
\* The model names an outstanding request by its age: the new request is
\* 1, the id animate stores in animationFrameRef, and the older ones move
\* up by one.
CanRequest(pending) == \A id \in pending : id < MaxRafId
requestAnimationFrame(pending) == {1} \cup { id + 1 : id \in pending }

\* what makes renderScene a new function: the state cells it, draw3DZone
\* and drawSky read (farmData and object identity are tracked by the callers)
renderSceneDeps(r) ==
    << r.zoomLevel, r.panOffset, r.currentTime, r.selectedZone, r.hoveredZone,
       r.showSensors, r.showLabels >>

(***************************************************************************)
(* One call of renderScene as built by the render with values r and props  *)
(* zones and sensors.  Without a 2D context it returns before it draws; a  *)
(* pass that throws has stored the regions of the zones before the broken  *)
(* one.  The layout box of the canvas is not looked at.                    *)
(***************************************************************************)
animateThrows(zones) == surface # "noContext" /\ renderThrows(zones)

\* a pass that stores each zone's polygon where the camera of r puts it
RenderPassOnScreen(r, zones, sensors) ==
    LET moved(e) ==
            [ id |-> e.id,
              corners |-> [ k \in 1 .. Len(e.corners) |->
                              Pt(e.corners[k].x + r.panOffset.x, e.corners[k].y + r.panOffset.y) ] ]
        drawn == renderScene(<< >>, zones)
    IN  IF surface = "noContext"
        THEN /\ painted' = FALSE
             /\ UNCHANGED << zoneHitAreas, markers >>
        ELSE /\ zoneHitAreas' = [ i \in 1 .. Len(drawn) |-> moved(drawn[i]) ]
             /\ painted' = ~renderThrows(zones)
             /\ markers' = IF renderThrows(zones) THEN << >>
                           ELSE sensorMarkers(r.showSensors, sensors)

RenderPass(r, zones, sensors) ==
    IF surface = "noContext"
    THEN /\ painted' = FALSE
         /\ UNCHANGED << zoneHitAreas, markers >>
    ELSE /\ zoneHitAreas' = renderScene(zoneHitAreas, zones)
         /\ painted' = ~renderThrows(zones)
         /\ markers' = IF renderThrows(zones) THEN << >>
                       ELSE sensorMarkers(r.showSensors, sensors)

(***************************************************************************)
(* A commit of the component with hook state s and props zones, sensors:   *)
(* the closures are rebuilt; when renderScene changed, the animation       *)
(* effect's cleanup runs and the effect runs again: frame = 0, then        *)
(* animate(): frame++, setCurrentTime(frame), renderScene(),               *)
(* requestAnimationFrame.  An error thrown by animate() leaves the effect  *)
(* without the request and without a cleanup, and React, having no error   *)
(* boundary above the component, removes the tree.                         *)
(***************************************************************************)
CommitProps(s, zones, sensors, touched) ==
    LET rerun == touched \/ renderSceneDeps(s) # renderSceneDeps(rendered)
        afterCleanup == cleanup(rafPending, animationFrameRef)
    IN  /\ rendered' = s
        /\ farmData' = zones
        /\ sensorData' = sensors
        /\ depsTouched' = FALSE
        /\ IF rerun
           THEN /\ CanRequest(afterCleanup)
                /\ frame' = 1
                /\ state' = [s EXCEPT !.currentTime = 1]
                /\ RenderPass(s, zones, sensors)
                /\ IF animateThrows(zones)
                   THEN /\ lifecycle' = "failed"
                        /\ rafPending' = afterCleanup
                        /\ UNCHANGED animationFrameRef
                   ELSE /\ lifecycle' = "mounted"
                        /\ rafPending' = requestAnimationFrame(afterCleanup)
                        /\ animationFrameRef' = 1
           ELSE /\ state' = s
                /\ painted' = FALSE
                /\ lifecycle' = "mounted"
                /\ UNCHANGED << frame, zoneHitAreas, markers, animationFrameRef, rafPending >>

\* a commit that puts the camera back to its first offset
CommitRecentred(s, zones, touched) ==
    CommitProps([s EXCEPT !.panOffset = Pt(100, 50)], zones, sensorData, touched)

\* a commit under the same sensorData prop
Commit(s, zones, touched) == CommitProps(s, zones, sensorData, touched)

Mounted == lifecycle = "mounted"

\* the browser dispatches click right after mouseup, nothing in between
ClickDue == pointer \in {"released", "releasedDrag"}
Idle == ~ClickDue

\* pointer and wheel events reach the canvas only where its layout box
\* (getBoundingClientRect) has an area
CanvasHit == surface # "zeroArea"

\* first render and first run of the animation effect
Mount ==
    /\ lifecycle = "init"
    /\ Commit(state, farmData, TRUE)
    /\ calls' = << >>
    /\ lastOp' = "Mount"
    /\ UNCHANGED << pointer, eventPoint, panBase >>
    /\ UNCHANGED << wheelRun, surface >>
    /\ UNCHANGED hookVars

\* the view is torn down: the effect's cleanup runs, canvasRef becomes null
Unmount ==
    /\ Mounted /\ Idle
    /\ lifecycle' = "unmounted"
    /\ rafPending' = cleanup(rafPending, animationFrameRef)
    /\ calls' = << >>
    /\ lastOp' = "Unmount"
    /\ painted' = FALSE
    /\ UNCHANGED << farmData, sensorData, markers, zoneHitAreas, animationFrameRef,
                    state, rendered, frame, depsTouched, pointer, eventPoint, panBase >>
    /\ UNCHANGED << wheelRun, surface >>
    /\ UNCHANGED hookVars

\* the parent passes a new farmData: the component renders with it
RefreshFarm(zones) ==
    /\ Mounted /\ Idle
    /\ Commit(state, zones, TRUE)
    /\ calls' = << >>
    /\ lastOp' = "RefreshFarm"
    /\ UNCHANGED << pointer, eventPoint, panBase >>
    /\ UNCHANGED << wheelRun, surface >>
    /\ UNCHANGED hookVars

\* the parent passes a new sensorData array
RefreshSensors(sensors) ==
    /\ Mounted /\ Idle
    /\ CommitProps(state, farmData, sensors, TRUE)
    /\ calls' = << >>
    /\ lastOp' = "RefreshSensors"
    /\ UNCHANGED << pointer, eventPoint, panBase >>
    /\ UNCHANGED << wheelRun, surface >>
    /\ UNCHANGED hookVars

\* React commits the queued updates of continuous events and of animate
Render ==
    /\ Mounted /\ Idle
    /\ depsTouched \/ state # rendered
    /\ Commit(state, farmData, depsTouched)
    /\ calls' = << >>
    /\ lastOp' = "Render"
    /\ UNCHANGED << pointer, eventPoint, panBase >>
    /\ UNCHANGED << wheelRun, surface >>
    /\ UNCHANGED hookVars

(***************************************************************************)
(* A paint tick fires an outstanding request: animate() of the effect that *)
(* issued it.  renderScene is the one of that effect's render; it returns  *)
(* at once when canvasRef.current is null (after unmount, where the        *)
(* setCurrentTime call has no effect either).  An error thrown by the pass  *)
(* ends animate() before it asks for the next frame.                       *)
(***************************************************************************)
Tick(id) ==
    /\ id \in rafPending /\ Idle
    /\ frame < MaxFrame
    /\ CanRequest(rafPending \ {id})
    /\ frame' = frame + 1
    /\ IF Mounted
       THEN /\ state' = [state EXCEPT !.currentTime = frame']
            /\ RenderPass(rendered, farmData, sensorData)
       ELSE /\ painted' = FALSE
            /\ UNCHANGED << state, zoneHitAreas, markers >>
    /\ IF Mounted /\ animateThrows(farmData)
       THEN /\ rafPending' = rafPending \ {id}
            /\ UNCHANGED animationFrameRef
       ELSE /\ rafPending' = requestAnimationFrame(rafPending \ {id})
            /\ animationFrameRef' = 1
    /\ calls' = << >>
    /\ lastOp' = "Tick"
    /\ UNCHANGED << lifecycle, farmData, sensorData, rendered, depsTouched,
                    pointer, eventPoint, panBase >>
    /\ UNCHANGED << wheelRun, surface >>
    /\ UNCHANGED hookVars

(***************************************************************************)
(* Pointer and wheel handlers.  They read the closure (rendered) and queue *)
(* updates on the hook state.                                              *)
(***************************************************************************)
Last(q) == q[Len(q)]

\* handleMouseMove, hover branch: `found` after the forEach over the Map
hoverFound(m, point) ==
    LET hit == Matches(m, point) IN IF hit = << >> THEN null ELSE Last(hit).id

\* handleClick: the ids the forEach passes to setSelectedZone and onZoneClick
clickHits(m, point) == Ids(Matches(m, point))

\* a click that deselects on a miss
clickSelectionOrNone(prev, hits) == IF hits = << >> THEN null ELSE Last(hits)

\* selectedZone after the setSelectedZone calls of handleClick
clickSelection(prev, hits) == IF hits = << >> THEN prev ELSE Last(hits)

handleMouseDown(p) ==
    /\ Mounted /\ pointer = "up" /\ CanvasHit
    /\ Commit([state EXCEPT !.isDragging = TRUE, !.dragStart = p], farmData, depsTouched)
    /\ pointer' = "down"
    /\ eventPoint' = p
    /\ panBase' = << Pt(state.panOffset.x - p.x, state.panOffset.y - p.y) >>
    /\ calls' = << >>
    /\ lastOp' = "MouseDown"
    /\ UNCHANGED << wheelRun, surface >>
    /\ UNCHANGED hookVars

handleMouseMove(p) ==
    /\ Mounted /\ Idle /\ CanvasHit
    /\ IF rendered.isDragging
       THEN /\ PanInBounds(dragPan(state.panOffset, p, rendered.dragStart))
            /\ state' = [state EXCEPT
                            !.panOffset = dragPan(state.panOffset, p, rendered.dragStart),
                            !.dragStart = p]
            /\ depsTouched' = TRUE
            /\ pointer' = IF pointer = "down" THEN "dragged" ELSE pointer
       ELSE /\ state' = [state EXCEPT
                            !.hoveredZone = hoverFound(zoneHitAreas, adjusted(p, rendered))]
            /\ UNCHANGED << depsTouched, pointer >>
    /\ eventPoint' = p
    /\ calls' = << >>
    /\ lastOp' = IF rendered.isDragging THEN "DragMove" ELSE "HoverMove"
    /\ painted' = FALSE
    /\ UNCHANGED << lifecycle, farmData, sensorData, markers, zoneHitAreas,
                    animationFrameRef, rafPending,
                    rendered, frame, panBase >>
    /\ UNCHANGED << wheelRun, surface >>
    /\ UNCHANGED hookVars

\* the button is released where the last pointer event left the pointer
handleMouseUp ==
    /\ Mounted /\ pointer \in {"down", "dragged"}
    /\ Commit([state EXCEPT !.isDragging = FALSE], farmData, depsTouched)
    /\ pointer' = IF pointer = "dragged" THEN "releasedDrag" ELSE "released"
    /\ calls' = << >>
    /\ lastOp' = "MouseUp"
    /\ UNCHANGED << eventPoint, panBase >>
    /\ UNCHANGED << wheelRun, surface >>
    /\ UNCHANGED hookVars

\* onMouseLeave={handleMouseUp}; the button, if held, is released outside
handleMouseLeave ==
    /\ Mounted /\ Idle /\ CanvasHit
    /\ state' = [state EXCEPT !.isDragging = FALSE]
    /\ pointer' = "up"
    /\ panBase' = << >>
    /\ calls' = << >>
    /\ lastOp' = "MouseLeave"
    /\ painted' = FALSE
    /\ UNCHANGED << lifecycle, farmData, sensorData, markers, zoneHitAreas,
                    animationFrameRef, rafPending,
                    rendered, frame, depsTouched, eventPoint >>
    /\ UNCHANGED << wheelRun, surface >>
    /\ UNCHANGED hookVars

\* the click that follows mouseup, at the release point
handleClick ==
    /\ Mounted /\ ClickDue
    /\ LET hits == IF rendered.isDragging THEN << >>
                   ELSE clickHits(zoneHitAreas, adjusted(eventPoint, rendered))
       IN  /\ Commit([state EXCEPT !.selectedZone = clickSelection(@, hits)],
                     farmData, depsTouched)
           /\ calls' = hits
    /\ pointer' = "up"
    /\ panBase' = << >>
    /\ lastOp' = "Click"
    /\ UNCHANGED << eventPoint >>
    /\ UNCHANGED << wheelRun, surface >>
    /\ UNCHANGED hookVars

handleWheel(deltaY) ==
    /\ Mounted /\ Idle /\ CanvasHit
    /\ wheelZoom(state.zoomLevel, deltaY).d <= ZoomDenBound
    /\ state' = [state EXCEPT !.zoomLevel = wheelZoom(@, deltaY)]
    /\ wheelRun' = runAfterWheel(wheelRun, wheelZoom(state.zoomLevel, deltaY), deltaY)
    /\ wheelRun'.ups <= MaxWheel /\ wheelRun'.downs <= MaxWheel
    /\ calls' = << >>
    /\ lastOp' = "Wheel"
    /\ UNCHANGED surface
    /\ painted' = FALSE
    /\ UNCHANGED << lifecycle, farmData, sensorData, markers, zoneHitAreas,
                    animationFrameRef, rafPending,
                    rendered, frame, depsTouched, pointer, eventPoint, panBase >>
    /\ UNCHANGED hookVars

ZoomIn ==
    /\ Mounted /\ Idle
    /\ zoomInLevel(state.zoomLevel).d <= ZoomDenBound
    /\ Commit([state EXCEPT !.zoomLevel = zoomInLevel(@)], farmData, depsTouched)
    /\ calls' = << >>
    /\ lastOp' = "ZoomIn"
    /\ UNCHANGED surface
    /\ wheelRun' = runAfterButton(zoomInLevel(state.zoomLevel))
    /\ UNCHANGED << pointer, eventPoint, panBase >>
    /\ UNCHANGED hookVars

ZoomOut ==
    /\ Mounted /\ Idle
    /\ zoomOutLevel(state.zoomLevel).d <= ZoomDenBound
    /\ Commit([state EXCEPT !.zoomLevel = zoomOutLevel(@)], farmData, depsTouched)
    /\ calls' = << >>
    /\ lastOp' = "ZoomOut"
    /\ UNCHANGED surface
    /\ wheelRun' = runAfterButton(zoomOutLevel(state.zoomLevel))
    /\ UNCHANGED << pointer, eventPoint, panBase >>
    /\ UNCHANGED hookVars

\* a reset that leaves the selection alone
resetStateKeepsSelection(s) ==
    [s EXCEPT !.zoomLevel = One, !.panOffset = Pt(100, 50)]

\* handleReset: setZoomLevel(1); setPanOffset({ x: 100, y: 50 }); setSelectedZone(null)
resetState(s) ==
    [s EXCEPT !.zoomLevel = One, !.panOffset = Pt(100, 50), !.selectedZone = null]

\* the Reset button; the new panOffset object makes renderScene a new
\* function.  A reset during a drag gesture ends what panBase records.
handleReset ==
    /\ Mounted /\ Idle
    /\ Commit(resetState(state), farmData, TRUE)
    /\ panBase' = << >>
    /\ calls' = << >>
    /\ lastOp' = "Reset"
    /\ UNCHANGED surface
    /\ wheelRun' = newRun
    /\ UNCHANGED << pointer, eventPoint >>
    /\ UNCHANGED hookVars

\* the toolbar toggles: setShowSensors(!showSensors), setShowLabels(!showLabels),
\* the operand being the value of the render that built the handler
ToggleSensors ==
    /\ Mounted /\ Idle
    /\ Commit([state EXCEPT !.showSensors = ~rendered.showSensors], farmData, depsTouched)
    /\ calls' = << >>
    /\ lastOp' = "ToggleSensors"
    /\ UNCHANGED << pointer, eventPoint, panBase, wheelRun, surface >>
    /\ UNCHANGED hookVars

ToggleLabels ==
    /\ Mounted /\ Idle
    /\ Commit([state EXCEPT !.showLabels = ~rendered.showLabels], farmData, depsTouched)
    /\ calls' = << >>
    /\ lastOp' = "ToggleLabels"
    /\ UNCHANGED << pointer, eventPoint, panBase, wheelRun, surface >>
    /\ UNCHANGED hookVars

(***************************************************************************)
(* The layout box of the canvas (style width: 100%) collapses to no area   *)
(* or comes back, between gestures.  Nothing of the component runs.        *)
(***************************************************************************)
Resize ==
    /\ Mounted /\ pointer = "up"
    /\ surface \in {"ok", "zeroArea"}
    /\ surface' = IF surface = "ok" THEN "zeroArea" ELSE "ok"
    /\ calls' = << >>
    /\ lastOp' = "Resize"
    /\ painted' = FALSE
    /\ UNCHANGED << lifecycle, sensorData, markers, farmData, zoneHitAreas,
                    animationFrameRef, rafPending, state, rendered, frame,
                    depsTouched, pointer, eventPoint, panBase, wheelRun >>
    /\ UNCHANGED hookVars

SceneZoom == state.zoomLevel.d <= SceneZoomDenBound

(***************************************************************************)
(* useWebSocket: the farm-data socket and the readings it delivers, and    *)
(* the Dashboard that shows them.                                          *)
(***************************************************************************)
KeepLast == 50
ChartLast == 20
DefaultConfidence == Frac(4, 5)

\* array.slice(-n)
Slice(s, n) == IF Len(s) <= n THEN s ELSE SubSeq(s, Len(s) - n + 1, Len(s))

\* prev.filter(d => d.sensor_id !== sensor_id)
filterOthers(prev, sensor_id) ==
    LET other(d) == d.sensor_id # sensor_id IN SelectSeq(prev, other)

\* message.type === 'sensor_update' && message.data, inside the try
isSensorUpdate(message) ==
    message.parses /\ message.type = "sensor_update" /\ message.data # << >>

\* an updater that appends without removing the sensor's old reading
keepReadingUnfiltered(prev, reading) == Slice(Append(prev, reading), KeepLast)

\* the updater of setSensorData
keepReading(prev, reading) ==
    Slice(Append(filterOthers(prev, reading.sensor_id), reading), KeepLast)

\* reading.confidence_score || 0.8: the right operand for every falsy left
\* operand, undefined and 0 alike
confidenceOrDefault(reading) ==
    IF "confidence_score" \in DOMAIN reading /\ reading.confidence_score.n # 0
    THEN reading.confidence_score
    ELSE DefaultConfidence

\* the chartData effect: sensorData.slice(-20).map(...) (the time and the
\* [type]: value members are left out)
processedData(readings) ==
    [ i \in 1 .. Len(Slice(readings, ChartLast)) |->
        [ confidence |-> confidenceOrDefault(Slice(readings, ChartLast)[i]) ] ]

\* Math.round(f * 100) of a fraction f >= 0
RoundPercent(f) == (200 * f.n + f.d) \div (2 * f.d)

\* the percentage a SensorCard prints for its sensor
SensorCard(sensor) == RoundPercent(confidenceOrDefault(sensor))

farmWsOnOpen ==
    /\ farmWs = "connecting"
    /\ farmWs' = "open"
    /\ connected' = TRUE
    /\ UNCHANGED << hookSensorData, farmWsEvent, chartData >>
    /\ UNCHANGED << viewVars, chatVars >>

\* onclose, also after onerror: both call setConnected(false)
farmWsOnClose ==
    /\ farmWs \in {"connecting", "open"}
    /\ farmWs' = "closed"
    /\ connected' = FALSE
    /\ UNCHANGED << hookSensorData, farmWsEvent, chartData >>
    /\ UNCHANGED << viewVars, chatVars >>

\* farmWs.onmessage, the commit of its update, and the Dashboard's effect
\* on the new sensorData
farmWsOnMessage(message) ==
    /\ farmWs = "open"
    /\ farmWsEvent' = << message >>
    /\ IF isSensorUpdate(message)
       THEN /\ hookSensorData' = keepReading(hookSensorData, message.data[1])
            /\ chartData' = IF Len(hookSensorData') > 0
                            THEN processedData(hookSensorData') ELSE chartData
       ELSE UNCHANGED << hookSensorData, chartData >>
    /\ UNCHANGED << farmWs, connected >>
    /\ UNCHANGED << viewVars, chatVars >>

Next ==
    \/ Mount
    \/ Unmount
    \/ \E zones \in Snapshots : RefreshFarm(zones)
    \/ Render
    \/ \E id \in 1 .. MaxRafId : Tick(id)
    \/ \E p \in Points : handleMouseDown(p)
    \/ \E p \in Points : handleMouseMove(p)
    \/ handleMouseUp
    \/ handleMouseLeave
    \/ handleClick
    \/ \E deltaY \in DeltaYs : handleWheel(deltaY) /\ SceneZoom'
    \/ ZoomIn /\ SceneZoom'
    \/ ZoomOut /\ SceneZoom'
    \/ handleReset

Spec == Init /\ [][Next]_vars

(***************************************************************************)
(* The camera alone: the zoom buttons, the wheel and reset, with the full  *)
(* range of zoomLevel fractions.                                           *)
(***************************************************************************)
NextCamera ==
    \/ Mount
    \/ Render
    \/ \E deltaY \in DeltaYs : handleWheel(deltaY)
    \/ ZoomIn
    \/ ZoomOut
    \/ handleReset

SpecCamera == Init /\ [][NextCamera]_vars

(***************************************************************************)
(* The frame loop under the snapshots a backend may supply.  The host      *)
(* delivers the paint ticks it was asked for and React commits what is     *)
(* queued.                                                                 *)
(***************************************************************************)
NextZones ==
    \/ Mount
    \/ Unmount
    \/ \E zones \in FaultySnapshots : RefreshFarm(zones)
    \/ Render
    \/ \E id \in 1 .. MaxRafId : Tick(id)
    \/ \E p \in Points : handleMouseMove(p)

SpecZones ==
    /\ Init
    /\ [][NextZones]_vars
    /\ WF_vars(Render)
    /\ WF_vars(\E id \in 1 .. MaxRafId : Tick(id))

(***************************************************************************)
(* The view on a canvas that may have no 2D context (a property of the     *)
(* canvas, fixed when it is created) or no area.                           *)
(***************************************************************************)
InitSurface == InitView /\ surface \in {"ok", "noContext"}

NextSurface ==
    \/ Mount
    \/ \E zones \in Snapshots : RefreshFarm(zones)
    \/ Render
    \/ \E id \in 1 .. MaxRafId : Tick(id)
    \/ Resize
    \/ \E p \in Points : handleMouseDown(p)
    \/ \E p \in Points : handleMouseMove(p)
    \/ handleMouseUp
    \/ handleClick

SpecSurface == InitSurface /\ [][NextSurface]_vars

(***************************************************************************)
(* The view with its sensor readings and its two display toggles.          *)
(***************************************************************************)
NextView ==
    \/ Mount
    \/ \E zones \in Snapshots : RefreshFarm(zones)
    \/ \E sensors \in SensorFeeds : RefreshSensors(sensors)
    \/ Render
    \/ \E id \in 1 .. MaxRafId : Tick(id)
    \/ ToggleSensors
    \/ ToggleLabels
    \/ \E p \in Points : handleMouseMove(p)
    \/ ZoomIn /\ SceneZoom'

SpecView == Init /\ [][NextView]_vars

(***************************************************************************)
(* Hit regions of zones of many shapes, and the pointer over them.         *)
(***************************************************************************)
NextGeometry ==
    \/ Mount
    \/ \E zones \in GeometrySnapshots : RefreshFarm(zones)
    \/ Render
    \/ \E id \in 1 .. MaxRafId : Tick(id)
    \/ \E p \in GeometryPoints : handleMouseMove(p)

SpecGeometry == Init /\ [][NextGeometry]_vars

(***************************************************************************)
(* Zones with readings, painted under a moving camera, hover and selection. *)
(***************************************************************************)
NextColours ==
    \/ Mount
    \/ \E zones \in ColourSnapshots : RefreshFarm(zones)
    \/ Render
    \/ \E id \in 1 .. MaxRafId : Tick(id)
    \/ \E p \in Points : handleMouseMove(p)
    \/ \E p \in Points : handleMouseDown(p)
    \/ handleMouseUp
    \/ handleClick
    \/ ZoomIn

SpecColours == Init /\ [][NextColours]_vars

(***************************************************************************)
(* useWebSocket: the chat socket, and the ChatAssistant that submits to    *)
(* it.  The input field and the send button are disabled while connected  *)
(* is false.                                                               *)
(***************************************************************************)
feedVars == << farmWs, connected, hookSensorData, farmWsEvent, chartData >>

\* a sendChatMessage that records the message whatever the socket's state
sendChatMessageAlwaysRecords(message, readyState, messages, wire) ==
    [ chatMessages |-> Append(messages, [type |-> "user", message |-> message]),
      sent |-> IF readyState = "open" THEN Append(wire, message) ELSE wire ]

\* if (chatWs && chatWs.readyState === WebSocket.OPEN) { send; append }
sendChatMessage(message, readyState, messages, wire) ==
    IF readyState = "open"
    THEN [ chatMessages |-> Append(messages, [type |-> "user", message |-> message]),
           sent |-> Append(wire, message) ]
    ELSE [ chatMessages |-> messages, sent |-> wire ]

chatSocketOnOpen ==
    /\ chatWs = "connecting"
    /\ chatWs' = "open"
    /\ UNCHANGED << chatMessages, sent, submitted, inputMessage, isTyping >>
    /\ UNCHANGED << viewVars, feedVars >>

\* the backend or the network closes the chat socket
chatSocketClose ==
    /\ chatWs \in {"connecting", "open"}
    /\ chatWs' = "closed"
    /\ UNCHANGED << chatMessages, sent, submitted, inputMessage, isTyping >>
    /\ UNCHANGED << viewVars, feedVars >>

\* chatSocket.onmessage: a response with a message is appended as 'ai'
chatSocketOnMessage(response) ==
    /\ chatWs = "open"
    /\ Len(chatMessages) < MaxChat
    /\ chatMessages' = IF "message" \in DOMAIN response
                       THEN Append(chatMessages, [type |-> "ai", message |-> response.message])
                       ELSE chatMessages
    /\ UNCHANGED << chatWs, sent, submitted, inputMessage, isTyping >>
    /\ UNCHANGED << viewVars, feedVars >>

\* onChange of the input field (disabled={!connected})
setInputMessage(text) ==
    /\ connected
    /\ inputMessage' = text
    /\ UNCHANGED << chatWs, chatMessages, sent, submitted, isTyping >>
    /\ UNCHANGED << viewVars, feedVars >>

\* Enter in the input field, or the send button (disabled while isTyping)
handleSendMessage ==
    /\ connected
    /\ Len(submitted) < MaxChat /\ Len(chatMessages) < MaxChat
    /\ IF trim(inputMessage) = ""
       THEN UNCHANGED << chatMessages, sent, submitted, inputMessage, isTyping >>
       ELSE /\ isTyping' = TRUE
            /\ submitted' = Append(submitted, inputMessage)
            /\ chatMessages' = sendChatMessage(inputMessage, chatWs, chatMessages, sent).chatMessages
            /\ sent' = sendChatMessage(inputMessage, chatWs, chatMessages, sent).sent
            /\ inputMessage' = ""
    /\ UNCHANGED chatWs
    /\ UNCHANGED << viewVars, feedVars >>

\* setTimeout(() => setIsTyping(false), 2000)
typingTimeout ==
    /\ isTyping
    /\ isTyping' = FALSE
    /\ UNCHANGED << chatWs, chatMessages, sent, submitted, inputMessage >>
    /\ UNCHANGED << viewVars, feedVars >>

NextChat ==
    \/ farmWsOnOpen
    \/ farmWsOnClose
    \/ chatSocketOnOpen
    \/ chatSocketClose
    \/ \E response \in Responses : chatSocketOnMessage(response)
    \/ \E text \in Texts : setInputMessage(text)
    \/ handleSendMessage
    \/ typingTimeout

SpecChat == Init /\ [][NextChat]_vars

(***************************************************************************)
(* The feed of many sensors.  Sensors report for the first time in the     *)
(* order of their ids; the sensor at the head or at the end of the list    *)
(* reports again while every reading kept before the last one is a first   *)
(* reading.                                                                *)
(***************************************************************************)
HeardIds == { hookSensorData[i].sensor_id : i \in 1 .. Len(hookSensorData) }
RECURSIVE LargestId(_, _, _)
LargestId(readings, i, largest) ==
    IF i > Len(readings) THEN largest
    ELSE LargestId(readings, i + 1,
                   IF readings[i].sensor_id > largest THEN readings[i].sensor_id ELSE largest)
NextSensor == 1 + LargestId(hookSensorData, 1, 0)
Repeated == { i \in 1 .. Len(hookSensorData) : hookSensorData[i].value = 1 }

FeedOrder ==
    { r \in FeedReadings : r.value = 0 /\ r.sensor_id = NextSensor }
        \cup IF hookSensorData # << >> /\ Repeated \subseteq {Len(hookSensorData)}
             THEN { [sensor_id |-> hookSensorData[i].sensor_id, value |-> 1] :
                        i \in {1, Len(hookSensorData)} }
             ELSE {}

NextFeed ==
    \/ farmWsOnOpen
    \/ farmWsOnClose
    \/ \E message \in OtherMessages : farmWsOnMessage(message)
    \/ \E reading \in FeedOrder : farmWsOnMessage(SensorUpdate(reading))

SpecFeed == Init /\ [][NextFeed]_vars

(***************************************************************************)
(* The Dashboard under readings with and without a confidence_score.       *)
(***************************************************************************)
NextDashboard ==
    \/ farmWsOnOpen
    \/ farmWsOnClose
    \/ \E message \in DashboardMessages : farmWsOnMessage(message)

SpecDashboard == Init /\ [][NextDashboard]_vars

(***************************************************************************)
(* Properties.                                                             *)
(***************************************************************************)
InRange(z) == ~FLess(z, Half) /\ ~FLess(Two, z)

\* C1: after any sequence of zoom-in, zoom-out, wheel and reset operations
\* from zoomLevel = 1, 0.5 <= zoomLevel <= 2.0, in the hook state and in
\* every render.
C1_ZoomWithinClamp == InRange(state.zoomLevel) /\ InRange(rendered.zoomLevel)

\* the wheel has driven zoomLevel onto the lower clamp
C1_WheelAtFloor == lastOp = "Wheel" /\ state.zoomLevel = Half

HitIds == { zoneHitAreas[i].id : i \in 1 .. Len(zoneHitAreas) }
DrawnIds == { farmData[i].id : i \in 1 .. Len(farmData) }

\* C2: after every rendered frame the stored hit regions are exactly one
\* region for each zone id of the snapshot drawn in that frame, no others.
C2_RegionsAreTheDrawnZones ==
    painted => /\ HitIds = DrawnIds
               /\ Len(zoneHitAreas) = Cardinality(DrawnIds)

\* C3: across two successive frames of the mounted view the clock
\* published by the later frame (setCurrentTime(frame)) is strictly greater
\* than the one published by the earlier frame.
C3_ClockStrictlyIncreases ==
    [][(Mounted /\ painted') => state'.currentTime > state.currentTime]_vars

\* C4: at most one requestAnimationFrame request of the animation loop is
\* outstanding at any instant.
C4_AtMostOneRequest == Cardinality(rafPending) <= 1

\* a commit re-ran the animation effect, which cancelled the outstanding
\* request and issued a new one
C4_EffectReran == lastOp = "Render" /\ painted /\ rafPending = {animationFrameRef}

\* C5: once the view is torn down no request is outstanding and nothing
\* runs any more: no paint tick fires, so the teardown stays the last
\* operation, with no repaint and no clock update after it.
C5_TornDownIsQuiet ==
    lifecycle = "unmounted" => /\ rafPending = {}
                               /\ lastOp = "Unmount"
                               /\ ~painted

\* the view was torn down after the loop had run ticks
C5_TornDownAfterTicks == lifecycle = "unmounted" /\ frame > 1 /\ animationFrameRef # 0

\* the Map entries holding the scene point of the last pointer event
HitsAtPointer == Matches(zoneHitAreas, adjusted(eventPoint, rendered))

\* C6: the click that follows a drag gesture (pointer-down, at least one
\* pointer-move while dragging, pointer-up) does not change selectedZoneId
\* and does not invoke the zone-selection callback.
C6_DragClickSuppressed ==
    [][(pointer = "releasedDrag" /\ lastOp' = "Click")
          => (calls' = << >> /\ state'.selectedZone = state.selectedZone)]_vars

\* C7: when the pointer goes up at pn after a drag gesture begun at p0,
\* panOffset is its value at pointer-down plus (pn - p0).
C7_DragPanIsNetDisplacement ==
    (ClickDue /\ panBase # << >>)
        => state.panOffset = Pt(panBase[1].x + eventPoint.x, panBase[1].y + eventPoint.y)

\* C8: the callback is invoked exactly when a non-drag click resolves to a
\* hit region: such a click invokes it exactly once, with the id it
\* selects; no other operation invokes it.
C8_CallbackExactlyOnHit ==
    [][IF pointer = "released" /\ lastOp' = "Click" /\ HitsAtPointer # << >>
       THEN /\ Len(calls') = 1
            /\ calls'[1] = state'.selectedZone
            /\ \E i \in 1 .. Len(HitsAtPointer) : HitsAtPointer[i].id = calls'[1]
       ELSE calls' = << >>]_vars

\* C9: a point inside the hit regions of several zones resolves to the
\* last matching region in iteration order: hover sets hoveredZoneId to it,
\* a click sets selectedZoneId to it and invokes the callback once, with
\* that id only.
C9_OverlapResolvesToLast ==
    [][/\ (lastOp' = "HoverMove" /\ Len(HitsAtPointer') > 1)
            => state'.hoveredZone = Last(HitsAtPointer').id
       /\ (pointer = "released" /\ lastOp' = "Click" /\ Len(HitsAtPointer) > 1)
            => /\ state'.selectedZone = Last(HitsAtPointer).id
               /\ calls' = << Last(HitsAtPointer).id >>]_vars

\* C10: a click whose scene point lies inside no hit region leaves
\* selectedZoneId, hoveredZoneId, zoomLevel and panOffset unchanged and
\* does not invoke the callback.
C10_MissChangesNothing ==
    [][(ClickDue /\ lastOp' = "Click" /\ HitsAtPointer = << >>)
          => /\ state'.selectedZone = state.selectedZone
             /\ state'.hoveredZone = state.hoveredZone
             /\ state'.zoomLevel = state.zoomLevel
             /\ state'.panOffset = state.panOffset
             /\ calls' = << >>]_vars

\* a click missed every stored region while a zone was selected
C10_MissWithSelection ==
    /\ lastOp = "Click"
    /\ zoneHitAreas # << >>
    /\ HitsAtPointer = << >>
    /\ state.selectedZone # null

\* C11: from every reachable state, reset yields zoomLevel = 1, panOffset =
\* (100, 50) and no selected zone; a reset that follows a reset leaves the
\* hook state and the hit regions as the first one left them.
C11_ResetIsIdempotent ==
    [][lastOp' = "Reset" =>
          /\ state'.zoomLevel = One
          /\ state'.panOffset = Pt(100, 50)
          /\ state'.selectedZone = null
          /\ rendered'.zoomLevel = One
          /\ rendered'.panOffset = Pt(100, 50)
          /\ rendered'.selectedZone = null
          /\ (lastOp = "Reset" => (state' = state /\ zoneHitAreas' = zoneHitAreas))]_vars

\* a reset after the pointer has hovered a zone of a drawn snapshot, the
\* animation clock restarted by the reset
C11_ResetAfterUse ==
    /\ lastOp = "Reset"
    /\ state.zoomLevel = One /\ state.panOffset = Pt(100, 50)
    /\ state.hoveredZone # null
    /\ rendered.currentTime > 1

\* C12: after a camera reset both parts of the selection state are none:
\* hoveredZone as well as selectedZone.
C12_ResetClearsHover ==
    lastOp = "Reset" => (state.selectedZone = null /\ state.hoveredZone = null)

(***************************************************************************)
(* n-th power of the fraction a / b, not multiplied further once it has    *)
(* left [1/2, 2]: from there on min(2, .) and max(1/2, .) of the true      *)
(* power are the clamp bound anyway, and the numbers stay within 32 bits.  *)
(***************************************************************************)
RECURSIVE Power(_, _, _)
Power(a, b, n) ==
    IF n = 0 THEN One
    ELSE LET p == Power(a, b, n - 1)
         IN  IF FLess(Two, p) \/ FLess(p, Half) THEN p ELSE FMul(p, a, b)

Clamp(z) == FMax(Half, FMin(Two, z))

\* C13: n wheel-up events (negative deltaY) from zoomLevel = 1 give
\* min(2, 1.1^n), n wheel-down events (positive deltaY) give max(0.5, 0.9^n),
\* and every wheel event multiplies zoomLevel by 0.9 or by 1.1 and clamps
\* the product to [0.5, 2].
C13_WheelRunIsPower ==
    [][lastOp' = "Wheel" =>
          /\ state'.zoomLevel \in { Clamp(FMul(state.zoomLevel, 9, 10)),
                                    Clamp(FMul(state.zoomLevel, 11, 10)) }
          /\ (wheelRun'.pure /\ wheelRun'.downs = 0) =>
                 state'.zoomLevel = FMin(Two, Power(11, 10, wheelRun'.ups))
          /\ (wheelRun'.pure /\ wheelRun'.ups = 0) =>
                 state'.zoomLevel = FMax(Half, Power(9, 10, wheelRun'.downs))]_vars

\* a run of wheel-ups that has passed the upper clamp
C13_WheelUpsPastClamp ==
    /\ lastOp = "Wheel" /\ wheelRun.pure /\ wheelRun.ups = MaxWheel
    /\ state.zoomLevel = Two

C16_InvalidZoneSkipped ==
    painted =>
        \A i \in 1 .. Len(farmData) :
            IF /\ hasPosition(farmData[i])
               /\ \/ farmData[i].position.width < 0
                  \/ farmData[i].position.height < 0
            THEN farmData[i].id \notin HitIds
            ELSE farmData[i].id \in HitIds

\* C17: whatever snapshot arrives, a paint tick delivered to the mounted
\* view repaints and issues the next request, and the loop never ends: as
\* long as the host has not torn the view down, a request is outstanding.
C17_LoopSurvivesSnapshot ==
    [][/\ (lastOp' = "Tick" /\ Mounted) =>
              (painted' /\ animationFrameRef' \in rafPending')
       /\ (lifecycle' \notin {"init", "unmounted"}) => rafPending' # {}]_vars

\* C18: a paint tick delivered to the mounted view advances the clock by
\* exactly one, runs one renderScene pass and then issues the next request;
\* and a renderScene pass runs only in a paint tick or at mount.
C18_OnePassPerTick ==
    [][/\ (lastOp' = "Tick" /\ Mounted) =>
              /\ state'.currentTime = state.currentTime + 1
              /\ painted'
              /\ animationFrameRef' \in rafPending'
       /\ painted' => lastOp' \in {"Tick", "Mount"}]_vars

\* C19: while the canvas has no 2D context or no area, no frame is drawn
\* and the hit regions stay as they are, and a pointer-move or a click
\* changes neither hoveredZone nor selectedZone and calls no callback.
C19_NoSurfaceNoFrame ==
    [][surface # "ok" =>
          /\ ~painted'
          /\ zoneHitAreas' = zoneHitAreas
          /\ lastOp' \in {"HoverMove", "DragMove", "Click"} =>
                 /\ state'.hoveredZone = state.hoveredZone
                 /\ state'.selectedZone = state.selectedZone
                 /\ calls' = << >>]_vars

\* C20: in every frame a marker is drawn for a reading exactly when
\* showSensors is on and the reading's sensor_id is in sensorPositions, and
\* nothing else is drawn as a marker; a toggle of showSensors or showLabels
\* leaves the hit regions of the frame it causes, zoomLevel, panOffset,
\* selectedZone and hoveredZone as they were.
C20_MarkersFollowToggle ==
    [][/\ painted' =>
              /\ \A i \in 1 .. Len(sensorData') :
                     (\E j \in 1 .. Len(markers') : markers'[j] = sensorData'[i])
                     <=> (/\ rendered'.showSensors
                          /\ sensorData'[i] \in DOMAIN sensorPositions)
              /\ \A j \in 1 .. Len(markers') :
                     \E i \in 1 .. Len(sensorData') : sensorData'[i] = markers'[j]
       /\ lastOp' \in {"ToggleSensors", "ToggleLabels"} =>
              /\ painted'
              /\ zoneHitAreas' = zoneHitAreas
              /\ state'.zoomLevel = state.zoomLevel
              /\ state'.panOffset = state.panOffset
              /\ state'.selectedZone = state.selectedZone
              /\ state'.hoveredZone = state.hoveredZone]_vars

\* showSensors has been switched off over three readings, one of them not
\* in the table, with a zone hovered and the camera zoomed
C20_SensorsSwitchedOff ==
    /\ lastOp = "ToggleSensors" /\ painted
    /\ ~state.showSensors /\ markers = << >>
    /\ Len(sensorData) = 3
    /\ zoneHitAreas # << >>
    /\ state.hoveredZone # null
    /\ state.zoomLevel # One

\* scene points the round trip is taken at: zone corners, the pointer's
\* scene points, the origin and a point left of and above it
ScenePoints == { Pt(0, 0), Pt(500, 480), Pt(550, 550), Pt(-37, -111), Pt(613, 7) }

\* C21: for every reachable camera (panOffset, zoomLevel), in the hook state
\* and in the render, and every scene point q, the pointer-to-scene
\* conversion takes the canvas point q * zoomLevel + panOffset back to q.
C21_RoundTrip ==
    \A q \in ScenePoints : \A r \in {state, rendered} :
        LET back == screenToScene(sceneToScreen(q, r), r)
        IN  /\ back.d > 0
            /\ back.x = q.x * back.d
            /\ back.y = q.y * back.d

\* a frame drawn, and the pointer handled, under a zoomed and panned camera
C21_MovedCamera ==
    /\ lastOp = "HoverMove"
    /\ rendered.zoomLevel \notin {One, Frac(6, 5)}
    /\ rendered.panOffset # Pt(100, 50)
    /\ zoneHitAreas # << >>

\* the centroid of four corners, as the fraction (x / 4, y / 4)
Centroid(c) ==
    [ x |-> c[1].x + c[2].x + c[3].x + c[4].x,
      y |-> c[1].y + c[2].y + c[3].y + c[4].y,
      d |-> 4 ]

\* q lies outside the bounding box of the polygon c
OutsideBox(q, c) ==
    \/ \A k \in 1 .. Len(c) : q.x < c[k].x
    \/ \A k \in 1 .. Len(c) : q.x > c[k].x
    \/ \A k \in 1 .. Len(c) : q.y < c[k].y
    \/ \A k \in 1 .. Len(c) : q.y > c[k].y

FarPoints == { Pt(x, y) : x \in {-50, 150, 390, 500, 720}, y \in {10, 330, 450, 600, 700} }

\* C22: the even-odd ray-casting test finds the centroid of the four stored
\* top-face corners of every zone with positive width and height inside
\* that zone's region, and finds a point outside the bounding box of every
\* stored polygon inside none of them.
C22_CentroidHitsFarMisses ==
    /\ \A i \in 1 .. Len(zoneHitAreas) :
           isPointInPolygon(Centroid(zoneHitAreas[i].corners), zoneHitAreas[i].corners)
    /\ \A q \in FarPoints :
           (\A i \in 1 .. Len(zoneHitAreas) : OutsideBox(q, zoneHitAreas[i].corners))
           => Matches(zoneHitAreas, [x |-> q.x, y |-> q.y, d |-> 1]) = << >>

\* the pointer at the centroid of a stored top face has found that zone
C22_HoverAtCentroid ==
    /\ lastOp = "HoverMove"
    /\ \E i \in 1 .. Len(zoneHitAreas) :
           /\ state.hoveredZone = zoneHitAreas[i].id
           /\ adjusted(eventPoint, rendered).x * 4
                 = Centroid(zoneHitAreas[i].corners).x * adjusted(eventPoint, rendered).d
           /\ adjusted(eventPoint, rendered).y * 4
                 = Centroid(zoneHitAreas[i].corners).y * adjusted(eventPoint, rendered).d

\* C23: the top and side colours a frame paints a zone with are a function
\* of the zone's soil_moisture and health alone: zones with equal readings
\* have equal colours within a frame and from one frame to the next,
\* whatever the clock, the camera, the selection and the hover; health 100
\* with soil_moisture 60 is always painted with the top colour
\* rgb(160, 200, 80).
SameReadings(f, g) == f.soil_moisture = g.soil_moisture /\ f.health = g.health

C23_ColoursFollowReadings ==
    [][\A f \in paintedFaces' :
          /\ \A g \in paintedFaces \cup paintedFaces' :
                 SameReadings(f, g) => (f.top = g.top /\ f.side = g.side)
          /\ (f.health = 100 /\ f.soil_moisture = 60) => (f.top = << 160, 200, 80 >>)]_vars

\* a frame of a later tick, under a zoomed camera, that paints two zones of
\* equal readings, one hovered and outlined, the other not
C23_EqualReadingsOneHovered ==
    /\ rendered.currentTime > 1
    /\ rendered.zoomLevel # One
    /\ \E f, g \in paintedFaces :
          /\ f.id # g.id /\ SameReadings(f, g)
          /\ f.health = 100 /\ f.soil_moisture = 60
          /\ f.outline = "#FFA500" /\ g.outline = "#333"

\* C24: isDragging is true exactly between a pointer-down and the next
\* pointer-up or pointer-leave; pointer-down sets it and records the anchor
\* without changing panOffset; pointer-up and pointer-leave clear it without
\* changing panOffset; panOffset changes only on a pointer-move while
\* dragging or on reset.
ButtonHeld == pointer \in {"down", "dragged"}

C24_DragFlagLifecycle ==
    [][/\ (lifecycle' = "mounted") => (state'.isDragging <=> ButtonHeld')
       /\ (lastOp' = "MouseDown")
             => (/\ state'.isDragging
                 /\ state'.dragStart = eventPoint'
                 /\ state'.panOffset = state.panOffset)
       /\ (lastOp' \in {"MouseUp", "MouseLeave"})
             => (~state'.isDragging /\ state'.panOffset = state.panOffset)
       /\ (state'.panOffset # state.panOffset)
             => (lastOp' = "Reset" \/ (lastOp' = "DragMove" /\ state.isDragging))]_vars

\* C25: the confidence the Dashboard uses for a reading, in chartData and
\* on the sensor cards, is the reading's confidence_score whenever the
\* reading has one, for every value from 0 to 1 and 0 itself, and is 0.8
\* only when the reading has none.
SuppliedConfidence(reading) ==
    IF "confidence_score" \in DOMAIN reading THEN reading.confidence_score
    ELSE DefaultConfidence

C25_ConfidenceAsSupplied ==
    /\ Len(chartData) = Len(Slice(hookSensorData, ChartLast))
    /\ \A i \in 1 .. Len(chartData) :
          chartData[i].confidence = SuppliedConfidence(Slice(hookSensorData, ChartLast)[i])
    /\ \A i \in 1 .. Len(hookSensorData) :
          SensorCard(hookSensorData[i]) = RoundPercent(SuppliedConfidence(hookSensorData[i]))

\* C26: after any sequence of messages on the farm-data socket sensorData
\* holds at most 50 readings and at most one per sensor_id; a sensor_update
\* with data leaves its reading as the last element and as the only one of
\* its sensor_id; a message that does not parse, or is no sensor_update
\* with data, leaves the list unchanged.
OnePerSensor(readings) ==
    Cardinality({ readings[i].sensor_id : i \in 1 .. Len(readings) }) = Len(readings)

C26_FeedKeepsLatest ==
    [][/\ Len(hookSensorData') <= 50
       /\ OnePerSensor(hookSensorData')
       /\ (hookSensorData' # hookSensorData \/ farmWsEvent' # farmWsEvent)
             => (IF isSensorUpdate(farmWsEvent'[1])
                 THEN /\ hookSensorData'[Len(hookSensorData')] = farmWsEvent'[1].data[1]
                      /\ \A i \in 1 .. Len(hookSensorData') - 1 :
                            hookSensorData'[i].sensor_id # farmWsEvent'[1].data[1].sensor_id
                 ELSE hookSensorData' = hookSensorData)]_vars

\* fifty readings are kept, the first sensor's has been dropped, and the
\* last one replaced an earlier reading of its sensor
C26_FullListAfterRepeat ==
    /\ Len(hookSensorData) = 50
    /\ 1 \notin HeardIds
    /\ hookSensorData[50].value = 1
    /\ farmWsEvent = << SensorUpdate(hookSensorData[50]) >>

\* C27: a submitted message is appended to chatMessages and handed to the
\* chat socket exactly when the socket is open at that moment, and changes
\* neither otherwise; so the user messages of chatMessages are the
\* messages sent, in order; and a message submitted while connected is
\* true and the chat socket is not open is neither sent nor recorded,
\* although the input is cleared.
UserMessages ==
    LET user(m) == m.type = "user"
        mine == SelectSeq(chatMessages, user)
    IN  [ i \in 1 .. Len(mine) |-> mine[i].message ]

C27_ChatSendsIffOpen ==
    [][/\ UserMessages' = sent'
       /\ (submitted' # submitted)
             => (/\ inputMessage' = ""
                 /\ IF chatWs = "open"
                    THEN /\ sent' = Append(sent, inputMessage)
                         /\ chatMessages' =
                                Append(chatMessages, [type |-> "user", message |-> inputMessage])
                    ELSE /\ sent' = sent
                         /\ chatMessages' = chatMessages)]_vars

\* a message has just been submitted with connected true and the chat
\* socket still connecting: the input is empty and nothing was sent
C27_SubmittedWhileNotOpen ==
    /\ connected /\ chatWs = "connecting"
    /\ isTyping /\ inputMessage = ""
    /\ Len(submitted) = 1 /\ sent = << >> /\ chatMessages = << >>

\* C28: in every reachable state selectedZone, when set, is the id of a
\* zone of the current farm snapshot, across every interleaving of clicks,
\* frames and snapshot refreshes.
C28_SelectionInSnapshot ==
    /\ (state.selectedZone # null) => (state.selectedZone \in DrawnIds)
    /\ (rendered.selectedZone # null) => (rendered.selectedZone \in DrawnIds)

\* C29: wheel, zoom-in and zoom-out change zoomLevel and leave panOffset,
\* isDragging, selectedZone and hoveredZone alone; a drag move changes only
\* panOffset and dragStart; a hover update changes only hoveredZone; a
\* click changes only selectedZone.
Untouched(cells) == \A c \in cells : state'[c] = state[c]

C29_OperationsAreIndependent ==
    [][/\ (lastOp' \in {"Wheel", "ZoomIn", "ZoomOut"})
             => Untouched({"panOffset", "isDragging", "dragStart", "selectedZone",
                           "hoveredZone", "showSensors", "showLabels"})
       /\ (lastOp' = "DragMove")
             => Untouched({"zoomLevel", "isDragging", "selectedZone", "hoveredZone",
                           "showSensors", "showLabels"})
       /\ (lastOp' = "HoverMove")
             => Untouched({"zoomLevel", "panOffset", "isDragging", "dragStart",
                           "selectedZone", "showSensors", "showLabels"})
       /\ (lastOp' = "Click")
             => Untouched({"zoomLevel", "panOffset", "isDragging", "dragStart",
                           "hoveredZone", "showSensors", "showLabels"})]_vars

\* a click has selected a zone under a zoomed and panned camera while a
\* zone was hovered
C29_ClickUnderMovedCamera ==
    /\ lastOp = "Click"
    /\ state.selectedZone # null /\ state.hoveredZone # null
    /\ state.zoomLevel # One /\ state.panOffset # Pt(100, 50)

\* C30: the region stored for a zone is a function of the zone's position
\* rectangle and of the canvas size, not of panOffset or zoomLevel: while
\* the snapshot stays the same every stored polygon stays the same, whatever
\* happens to the camera between the frames, so the regions a hit test
\* finds after a camera change are those the next frame would store.
RegionOf(zone) ==
    [ id |-> zone.id,
      corners |-> absoluteCorners(zone, CanvasWidth \div 2, (CanvasHeight * 7) \div 10) ]

C30_RegionsIgnoreCamera ==
    [][/\ (Mounted /\ farmData' = farmData) => (zoneHitAreas' = zoneHitAreas)
       /\ painted'
             => (\A i \in 1 .. Len(farmData') :
                    \E j \in 1 .. Len(zoneHitAreas') : zoneHitAreas'[j] = RegionOf(farmData'[i]))]_vars

\* a frame painted under a zoomed and panned camera
C30_FrameUnderMovedCamera ==
    /\ painted
    /\ zoneHitAreas # << >>
    /\ rendered.zoomLevel # One /\ rendered.panOffset # Pt(100, 50)

====
